---- MODULE Spec2Model ----
(***************************************************************************)
(* The message/chat persistence engine of whatsapp-mcp: the event producer *)
(* (whatsapp.NewWhatsapp's event handler), the unbuffered ChatChan, the    *)
(* single consumer goroutine of services.NewService, the SQLite store      *)
(* (db.StoreChat / db.StoreMessage and the schema of initDB), the query   *)
(* engine of the MCP package, and the QR pairing call whatsapp.GetQR.      *)
(***************************************************************************)
EXTENDS Integers, Sequences, FiniteSets, TLC

(***************************************************************************)
(* Bounds of the model.                                                    *)
(***************************************************************************)
\* Number of protocol events the producer's handler is given.
MaxEvents == 2
\* Message timestamps are 1..MaxTime; 0 stands for the zero time.Time.
MaxTime == 2
\* Number of entries in one conversation of a history-sync payload.
MaxHistMsgs == 2
\* Messages in a store the query engine is called on, and instants they bear.
MaxStored == 3

(***************************************************************************)
(* Input domains.                                                          *)
(***************************************************************************)
JIDs == {"1@s.whatsapp.net", "9@g.us"}
Senders == {"1@s.whatsapp.net"}
MsgIDs == {"A", "B"}
Times == 1..MaxTime
ZeroTime == 0
\* events.Message.Message.Conversation is a *string: nil, "" or a text.
NilContent == "<nil>"
LiveContents == {NilContent, "", "hi"}
HistNames == {"Family"}
\* The conversations history syncs are about.
HistJIDs == {"9@g.us"}

\* models.Message as built by the producer.
Message(id, chatJID, sender, content, ts, fromMe) ==
    [ID |-> id, ChatJID |-> chatJID, Sender |-> sender, Content |-> content,
     Timestamp |-> ts, IsFromMe |-> fromMe]

\* models.Chat as sent on ChatChan (n and kind are bookkeeping of the model:
\* the sequence number of the send and the handler branch that built it).
Chat(jid, name, lmt, msgs) ==
    [JID |-> jid, Name |-> name, LastMessageTime |-> lmt, Messages |-> msgs]

(***************************************************************************)
(* Producer: whatsapp.handleMessage and whatsapp.handleHistorySync.        *)
(***************************************************************************)
\* handleMessage: a nil Conversation is an error, anything else a Message.
handleMessage(id, chatJID, sender, content, ts, fromMe) ==
    IF content = NilContent
    THEN [err |-> TRUE, msg |-> Message("", "", "", "", ZeroTime, FALSE)]
    ELSE [err |-> FALSE, msg |-> Message(id, chatJID, sender, content, ts, fromMe)]

\* The models.Chat the event handler sends for a live message.
LiveChat(msg) == Chat(msg.ChatJID, msg.Sender, msg.Timestamp, <<msg>>)

\* One entry of conv.GetMessages(): hasMessage is msg.GetMessage() != nil,
\* text is GetExtendedTextMessage().GetText().
HistEntry(hasMessage, text, ts, id, participant, fromMe) ==
    [hasMessage |-> hasMessage, text |-> text, ts |-> ts, id |-> id,
     participant |-> participant, fromMe |-> fromMe]

\* Variant of LaterOf: the timestamp of the entry at hand is taken.
LaterOfLast(timestamp, lastMessageTime) == timestamp

\* if timestamp.After(lastMessageTime) { lastMessageTime = timestamp }
LaterOf(timestamp, lastMessageTime) ==
    IF timestamp > lastMessageTime THEN timestamp ELSE lastMessageTime

\* The inner loop of handleHistorySync over conv.GetMessages().
RECURSIVE CollectMessages(_, _, _, _)
CollectMessages(entries, chatJID, msgs, lastMessageTime) ==
    IF entries = <<>>
    THEN [msgs |-> msgs, last |-> lastMessageTime]
    ELSE LET e == Head(entries) IN
         IF ~e.hasMessage \/ e.text = ""
         THEN CollectMessages(Tail(entries), chatJID, msgs, lastMessageTime)
         ELSE CollectMessages(
                  Tail(entries), chatJID,
                  Append(msgs, Message(e.id, chatJID, e.participant, e.text, e.ts, e.fromMe)),
                  LaterOf(e.ts, lastMessageTime))

\* handleHistorySync: the first conversation with a non-empty id is returned;
\* with none, the zero models.Chat and a nil error.
RECURSIVE handleHistorySync(_)
handleHistorySync(convs) ==
    IF convs = <<>>
    THEN Chat("", "", ZeroTime, <<>>)
    ELSE LET conv == Head(convs) IN
         IF conv.id = ""
         THEN handleHistorySync(Tail(convs))
         ELSE LET c == CollectMessages(conv.msgs, conv.id, <<>>, ZeroTime)
              IN  Chat(conv.id, conv.name, c.last, c.msgs)

(***************************************************************************)
(* Store: the schema of initDB, db.StoreChat and db.StoreMessage.          *)
(* A table is the set of its rows. Timestamps are instants: the driver     *)
(* writes a time.Time as text and reads it back as the same instant.       *)
(***************************************************************************)
ChatRow(chat) ==
    [jid |-> chat.JID, name |-> chat.Name, last_message_time |-> chat.LastMessageTime]

MessageRow(msg) ==
    [id |-> msg.ID, chat_jid |-> msg.ChatJID, sender |-> msg.Sender,
     content |-> msg.Content, timestamp |-> msg.Timestamp, is_from_me |-> msg.IsFromMe]

\* FOREIGN KEY (chat_jid) REFERENCES chats(jid), with foreign_keys = ON.
ForeignKeyOK(chatRows, row) == \E c \in chatRows : c.jid = row.chat_jid

\* Variants of MessageConflicts: a primary key on id alone, and on chat_jid alone.
MessageConflictsById(messageRows, row) == {r \in messageRows : r.id = row.id}
MessageConflictsByChat(messageRows, row) == {r \in messageRows : r.chat_jid = row.chat_jid}

\* PRIMARY KEY (id, chat_jid) of messages: the rows an INSERT OR REPLACE of
\* row conflicts with (and deletes).
MessageConflicts(messageRows, row) ==
    {r \in messageRows : r.id = row.id /\ r.chat_jid = row.chat_jid}

\* jid TEXT PRIMARY KEY of chats: the rows an INSERT OR REPLACE conflicts with.
ChatConflicts(chatRows, row) == {r \in chatRows : r.jid = row.jid}

\* Variant of StoreChat: the replaced rows are found by name instead of jid.
StoreChatKeyedByName(chatRows, chat, ioFail) ==
    IF ioFail
    THEN [chats |-> chatRows, err |-> TRUE]
    ELSE [chats |-> {r \in chatRows : r.name # chat.Name /\ r.jid # chat.JID}
                        \cup {ChatRow(chat)},
          err |-> FALSE]

\* Variant of StoreChat: an existing row keeps the later last_message_time.
StoreChatMerge(chatRows, chat, ioFail) ==
    IF ioFail
    THEN [chats |-> chatRows, err |-> TRUE]
    ELSE LET old == ChatConflicts(chatRows, ChatRow(chat))
             keep == {r \in old : r.last_message_time > chat.LastMessageTime}
         IN  [chats |-> (chatRows \ old)
                            \cup (IF keep = {} THEN {ChatRow(chat)}
                                  ELSE {[r EXCEPT !.name = chat.Name] : r \in keep}),
              err |-> FALSE]

\* Variant of StoreChat: a plain INSERT, which an existing row of the jid rejects.
StoreChatInsertOnly(chatRows, chat, ioFail) ==
    IF ioFail \/ ChatConflicts(chatRows, ChatRow(chat)) # {}
    THEN [chats |-> chatRows, err |-> TRUE]
    ELSE [chats |-> chatRows \cup {ChatRow(chat)}, err |-> FALSE]

\* StoreChat: INSERT OR REPLACE INTO chats (jid, name, last_message_time).
\* ioFail: ExecContext fails (I/O), and nothing is written.
StoreChat(chatRows, chat, ioFail) ==
    IF ioFail
    THEN [chats |-> chatRows, err |-> TRUE]
    ELSE [chats |-> (chatRows \ ChatConflicts(chatRows, ChatRow(chat)))
                        \cup {ChatRow(chat)},
          err |-> FALSE]

\* Variant of StoreMessage without the early return for an empty content.
StoreMessageNoDrop(chatRows, messageRows, msg, ioFail) ==
    IF ioFail \/ ~ForeignKeyOK(chatRows, MessageRow(msg))
    THEN [messages |-> messageRows, err |-> TRUE]
    ELSE [messages |-> (messageRows \ MessageConflicts(messageRows, MessageRow(msg)))
                           \cup {MessageRow(msg)},
          err |-> FALSE]

\* Variant of StoreMessage: a plain INSERT, which a primary key conflict rejects.
StoreMessageInsertOnly(chatRows, messageRows, msg, ioFail) ==
    IF msg.Content = ""
    THEN [messages |-> messageRows, err |-> FALSE]
    ELSE IF ioFail \/ ~ForeignKeyOK(chatRows, MessageRow(msg))
              \/ MessageConflicts(messageRows, MessageRow(msg)) # {}
    THEN [messages |-> messageRows, err |-> TRUE]
    ELSE [messages |-> messageRows \cup {MessageRow(msg)}, err |-> FALSE]

\* StoreMessage: nil without a write for an empty content, else INSERT OR
\* REPLACE INTO messages, which fails on I/O (ioFail) or on the foreign key.
StoreMessage(chatRows, messageRows, msg, ioFail) ==
    IF msg.Content = ""
    THEN [messages |-> messageRows, err |-> FALSE]
    ELSE IF ioFail \/ ~ForeignKeyOK(chatRows, MessageRow(msg))
    THEN [messages |-> messageRows, err |-> TRUE]
    ELSE [messages |-> (messageRows \ MessageConflicts(messageRows, MessageRow(msg)))
                           \cup {MessageRow(msg)},
          err |-> FALSE]

\* db.GetChat: the row of jid, or absent (nil, nil).
GetChat(chatRows, jid) ==
    IF \E r \in chatRows : r.jid = jid
    THEN [found |-> TRUE, chat |-> CHOOSE r \in chatRows : r.jid = jid]
    ELSE [found |-> FALSE, chat |-> ChatRow(Chat("", "", ZeroTime, <<>>))]

(***************************************************************************)
(* Timestamps and strings as the store and the query engine handle them.   *)
(***************************************************************************)
\* An instant t falls on the calendar day Day(t) at the time of day
\* TimeOfDay(t): two instants a day.
Day(t) == t \div 2
TimeOfDay(t) == t % 2

\* The TEXT the driver binds for a time.Time argument of ExecContext, layout
\* "2006-01-02 15:04:05.999999999-07:00": the date, a space (byte 32), the
\* time of day.
StoredText(t) == <<Day(t), 32, TimeOfDay(t)>>

\* t.Format(time.RFC3339), and what Scan gives for a TIMESTAMP column read
\* into a string: the date, the letter T (byte 84), the time of day.
RFC3339(t) == <<Day(t), 84, TimeOfDay(t)>>

\* time.Parse(time.RFC3339, s)
ParseRFC3339(s) == s[1] * 2 + s[3]

\* The comparison of two TEXT values in SQL: byte by byte.
TextLess(a, b) == \E i \in 1..3 : a[i] < b[i] /\ \A j \in 1..(i - 1) : a[j] = b[j]
TextLeq(a, b) == a = b \/ TextLess(a, b)

\* The characters of the strings of the model.
Chars(s) ==
    CASE s = "" -> <<>>
      [] s = "hi" -> <<"h", "i">>
      [] s = "Hello" -> <<"H", "e", "l", "l", "o">>
      [] s = "EL" -> <<"E", "L">>
      [] s = "Family" -> <<"F", "a", "m", "i", "l", "y">>
      [] s = "bob" -> <<"b", "o", "b">>
      [] s = "fam" -> <<"f", "a", "m">>
      [] s = "Z" -> <<"Z">>
      [] s = "BO" -> <<"B", "O">>
      [] s = "_" -> <<"_">>
      [] s = "1" -> <<"1">>
      [] s = "9@g.us" -> <<"9", "@", "g", ".", "u", "s">>
      [] s = "1@s.whatsapp.net" ->
             <<"1", "@", "s", ".", "w", "h", "a", "t", "s", "a", "p", "p", ".", "n", "e", "t">>
      [] s = "19@s.whatsapp.net" ->
             <<"1", "9", "@", "s", ".", "w", "h", "a", "t", "s", "a", "p", "p", ".", "n", "e", "t">>
      [] s = "7@s.whatsapp.net" ->
             <<"7", "@", "s", ".", "w", "h", "a", "t", "s", "a", "p", "p", ".", "n", "e", "t">>

\* The characters of the model in byte order, and the byte rank of one.
Ascii ==
    <<".", "1", "7", "9", "@", "B", "E", "F", "H", "L", "O", "Z", "_",
      "a", "b", "e", "f", "g", "h", "i", "l", "m", "n", "o", "p", "s", "t", "u", "w", "y">>
Code(c) == CHOOSE i \in 1..Len(Ascii) : Ascii[i] = c

\* LOWER(), and the case folding of LIKE.
Lower(c) ==
    CASE c = "E" -> "e" [] c = "F" -> "f" [] c = "H" -> "h" [] c = "L" -> "l"
      [] c = "Z" -> "z" [] c = "B" -> "b" [] c = "O" -> "o" [] OTHER -> c

\* x LIKE pattern on character sequences: % any run, _ any one character,
\* letters without regard to case.
RECURSIVE Like(_, _)
Like(x, pattern) ==
    IF pattern = <<>> THEN x = <<>>
    ELSE IF Head(pattern) = "%"
    THEN Like(x, Tail(pattern)) \/ (x # <<>> /\ Like(Tail(x), pattern))
    ELSE /\ x # <<>>
         /\ Head(pattern) = "_" \/ Lower(Head(pattern)) = Lower(Head(x))
         /\ Like(Tail(x), Tail(pattern))

\* x LIKE "%"+query+"%"
LikeContains(x, query) == Like(Chars(x), <<"%">> \o Chars(query) \o <<"%">>)

\* The BINARY collation of ORDER BY chats.name: byte by byte, a prefix first.
StrLess(x, y) ==
    LET a == Chars(x)
        b == Chars(y)
    IN  \E i \in 1..Len(b) :
            /\ \A j \in 1..(i - 1) : j <= Len(a) /\ a[j] = b[j]
            /\ Len(a) < i \/ (Len(a) >= i /\ Code(a[i]) < Code(b[i]))

\* strings.Split(jid, "@")[0] when jid contains "@", else jid.
RECURSIVE UpToAt(_)
UpToAt(cs) == IF cs = <<>> \/ Head(cs) = "@" THEN <<>> ELSE <<Head(cs)>> \o UpToAt(Tail(cs))
LocalPart(jid) == UpToAt(Chars(jid))

(***************************************************************************)
(* Query engine (package mcp).                                             *)
(***************************************************************************)
\* if limit <= 0 { limit = 20 }
DefaultLimit == 20
NormLimit(limit) == IF limit <= 0 THEN DefaultLimit ELSE limit
\* if page < 0 { page = 0 }
NormPage(page) == IF page < 0 THEN 0 ELSE page

\* One scanned row of the SELECT ... FROM messages JOIN chats: mcp.Message.
McpMessage(m, c) ==
    [Timestamp |-> ParseRFC3339(RFC3339(m.timestamp)), Sender |-> m.sender,
     Content |-> m.content, IsFromMe |-> m.is_from_me, ChatJID |-> c.jid, ID |-> m.id,
     ChatName |-> c.name]

\* FROM messages JOIN chats ON messages.chat_jid = chats.jid
Joined(chatRows, messageRows) == {p \in messageRows \X chatRows : p[1].chat_jid = p[2].jid}

\* No date range: len(dateRange) # 2.
NoRange == <<>>

\* The WHERE clauses of ListMessages, each present when its argument is: the
\* bounds of the range are compared, as RFC3339 texts, with the stored text.
ListMessagesRows(chatRows, messageRows, dateRange, senderPhoneNumber, chatJID, query) ==
    {McpMessage(p[1], p[2]) : p \in
        {p \in Joined(chatRows, messageRows) :
            /\ Len(dateRange) = 2 =>
                   /\ TextLeq(RFC3339(dateRange[1]), StoredText(p[1].timestamp))
                   /\ TextLeq(StoredText(p[1].timestamp), RFC3339(dateRange[2]))
            /\ senderPhoneNumber # "" => p[1].sender = senderPhoneNumber
            /\ chatJID # "" => p[1].chat_jid = chatJID
            /\ query # "" => LikeContains(p[1].content, query)}}

\* ORDER BY messages.timestamp DESC: every order of the rows the clause
\* allows (rows of equal timestamp come in any order).
RECURSIVE DescOrders(_)
DescOrders(S) ==
    IF S = {} THEN {<<>>}
    ELSE UNION {{<<m>> \o t : t \in DescOrders(S \ {m})} :
                    m \in {x \in S : \A y \in S : x.Timestamp >= y.Timestamp}}

\* ORDER BY messages.timestamp ASC
RECURSIVE AscOrders(_)
AscOrders(S) ==
    IF S = {} THEN {<<>>}
    ELSE UNION {{<<m>> \o t : t \in AscOrders(S \ {m})} :
                    m \in {x \in S : \A y \in S : x.Timestamp <= y.Timestamp}}

\* Variant of LimitOffset: the page number taken as the offset.
LimitOffsetByPage(s, limit, offset) ==
    SubSeq(s, (offset \div limit) + 1,
           IF Len(s) < (offset \div limit) + limit THEN Len(s) ELSE (offset \div limit) + limit)

\* LIMIT ? OFFSET ?
LimitOffset(s, limit, offset) ==
    SubSeq(s, offset + 1, IF Len(s) < offset + limit THEN Len(s) ELSE offset + limit)

\* LIMIT ? without OFFSET: a negative limit is no limit.
Limit(s, n) == IF n < 0 THEN s ELSE LimitOffset(s, n, 0)

NoMessage ==
    [Timestamp |-> ZeroTime, Sender |-> "", Content |-> "", IsFromMe |-> FALSE,
     ChatJID |-> "", ID |-> "", ChatName |-> ""]

\* return nil, fmt.Errorf(text, ...) of GetMessageContext
ContextError(text) == [err |-> text, Message |-> NoMessage, Before |-> <<>>, After |-> <<>>]

\* GetMessageContext once the target row p is scanned: the rows of the
\* target's chat whose stored text is below the target's timestamp string,
\* newest first and cut at before, and those above it, oldest first and cut
\* at after, each appended in the order of its query.
ContextOf(chatRows, messageRows, p, before, after) ==
    LET timestampStr == RFC3339(p[1].timestamp)
        chatJID == p[1].chat_jid
        inChat == {q \in Joined(chatRows, messageRows) : q[1].chat_jid = chatJID}
        rowsBefore == {McpMessage(q[1], q[2]) : q \in
                          {q \in inChat : TextLess(StoredText(q[1].timestamp), timestampStr)}}
        rowsAfter == {McpMessage(q[1], q[2]) : q \in
                          {q \in inChat : TextLess(timestampStr, StoredText(q[1].timestamp))}}
    IN  {[err |-> "", Message |-> McpMessage(p[1], p[2]),
          Before |-> Limit(b, before), After |-> Limit(a, after)] :
            b \in DescOrders(rowsBefore), a \in AscOrders(rowsAfter)}

\* GetMessageContext(messageID, before, after): the set of its possible
\* results. The target is a row of that id, of whatever chat; fail names the
\* call that fails, if one does. Every error of the target's Scan, no row and
\* a failed query alike, is returned as "message with ID ... not found".
GetMessageContext(chatRows, messageRows, messageID, before, after, fail) ==
    LET targets == {p \in Joined(chatRows, messageRows) : p[1].id = messageID}
    IN  IF fail = "open" THEN {ContextError("unable to open database: %v")}
        ELSE IF fail = "target" \/ targets = {}
        THEN {ContextError("message with ID %s not found: %v")}
        ELSE IF fail = "before" THEN {ContextError("error retrieving previous messages: %v")}
        ELSE IF fail = "after" THEN {ContextError("error retrieving following messages: %v")}
        ELSE UNION {ContextOf(chatRows, messageRows, p, before, after) : p \in targets}

\* The loop over the matches of ListMessages with includeContext: the context
\* of each match's id, appended as before, message, after; a match whose
\* context call fails is passed over. fails holds the ways a call may go.
RECURSIVE Expand(_, _, _, _, _, _)
Expand(chatRows, messageRows, matches, contextBefore, contextAfter, fails) ==
    IF matches = <<>> THEN {<<>>}
    ELSE LET contexts == UNION {GetMessageContext(chatRows, messageRows, Head(matches).ID,
                                                  contextBefore, contextAfter, f) : f \in fails}
             rest == Expand(chatRows, messageRows, Tail(matches),
                            contextBefore, contextAfter, fails)
         IN  {(IF c.err # "" THEN <<>> ELSE c.Before \o <<c.Message>> \o c.After) \o r :
                 c \in contexts, r \in rest}

\* ListMessages: the set of its possible results. fail is "open", "query",
\* "context" (a context call may fail) or "none".
ListMessages(chatRows, messageRows, dateRange, senderPhoneNumber, chatJID, query, limit, page, includeContext, contextBefore, contextAfter, fail) ==
    LET lim == NormLimit(limit)
        offset == NormPage(page) * lim
        pages == {LimitOffset(s, lim, offset) :
                     s \in DescOrders(ListMessagesRows(chatRows, messageRows, dateRange,
                                                       senderPhoneNumber, chatJID, query))}
        fails == IF fail = "context" THEN {"none", "target"} ELSE {"none"}
    IN  IF fail = "open" THEN {[err |-> "unable to open database: %v", messages |-> <<>>]}
        ELSE IF fail = "query" THEN {[err |-> "error executing query: %v", messages |-> <<>>]}
        ELSE {[err |-> "", messages |-> m] : m \in
                 UNION {IF includeContext /\ Len(pg) > 0
                        THEN Expand(chatRows, messageRows, pg, contextBefore, contextAfter, fails)
                        ELSE {pg} : pg \in pages}}

\* One scanned row of a chat query: mcp.Chat. The last-message fields stay
\* at their zero values when the joined columns are NULL.
McpChat(c, m) ==
    [JID |-> c.jid, Name |-> c.name,
     LastMessageTime |-> ParseRFC3339(RFC3339(c.last_message_time)),
     LastMessage |-> m.content, LastSender |-> m.sender, LastIsFromMe |-> m.is_from_me]

\* The NULL columns of a LEFT JOIN without a match.
NullMessage == [content |-> "", sender |-> "", is_from_me |-> FALSE]

\* Variant of LastMessageMatches: the latest message of the chat is joined.
LastMessageMatchesLatest(messageRows, c) ==
    {m \in messageRows :
        /\ m.chat_jid = c.jid
        /\ \A n \in messageRows : n.chat_jid = c.jid => n.timestamp <= m.timestamp}

\* ON chats.jid = messages.chat_jid AND chats.last_message_time =
\* messages.timestamp: the message rows joined to chat row c.
LastMessageMatches(messageRows, c) ==
    {m \in messageRows :
        /\ m.chat_jid = c.jid
        /\ StoredText(m.timestamp) = StoredText(c.last_message_time)}

\* chats LEFT JOIN messages, for one chat row: a joined row per matching
\* message, or one with NULLs for the columns of messages.
LastMessagePairs(messageRows, c) ==
    LET match == LastMessageMatches(messageRows, c)
    IN  IF match = {} THEN {<<c, NullMessage>>} ELSE {<<c, m>> : m \in match}

\* The joined rows of one chat, scanned.
LastMessageRows(messageRows, c) ==
    {McpChat(p[1], p[2]) : p \in LastMessagePairs(messageRows, c)}

\* ORDER BY a key, ascending: every order of the rows the clause allows.
RECURSIVE OrdersBy(_, _)
OrdersBy(S, key) ==
    IF S = {} THEN {<<>>}
    ELSE UNION {{<<r>> \o t : t \in OrdersBy(S \ {r}, key)} :
                    r \in {x \in S : \A y \in S : key[x] <= key[y]}}

\* Variant of ChatSortKey: sortBy is not looked at.
ChatSortKeyLastActive(S, sortBy) == [r \in S |-> 0 - r.LastMessageTime]

\* The sort key of ListChats: chats.name for sortBy = "name", else
\* chats.last_message_time DESC.
ChatSortKey(S, sortBy) ==
    [r \in S |-> IF sortBy = "name"
                 THEN Cardinality({n \in {x.Name : x \in S} : StrLess(n, r.Name)})
                 ELSE 0 - r.LastMessageTime]

ChatsError(text) == [err |-> text, chats |-> <<>>]

\* The joined rows of ListChats: those of every chat the query keeps. Two
\* messages joined to one chat give two rows, alike or not once scanned.
ListChatsPairs(chatRows, messageRows, query) ==
    UNION {LastMessagePairs(messageRows, c) : c \in
              {c \in chatRows :
                  query # "" => \/ LikeContains(c.name, query)
                                \/ LikeContains(c.jid, query)}}

\* rows.Scan over a sequence of joined rows.
ScanChats(s) == [i \in 1..Len(s) |-> McpChat(s[i][1], s[i][2])]

\* ListChats: the set of its possible results. The SELECT list names the
\* columns of messages, which only the LEFT JOIN of includeLastMessage brings
\* into the FROM clause: without it the statement does not compile and
\* db.Query fails.
ListChats(chatRows, messageRows, query, limit, page, includeLastMessage, sortBy, fail) ==
    LET lim == NormLimit(limit)
        offset == NormPage(page) * lim
        pairs == ListChatsPairs(chatRows, messageRows, query)
        key == ChatSortKey({McpChat(p[1], p[2]) : p \in pairs}, sortBy)
    IN  IF fail = "open" THEN {ChatsError("unable to open database: %v")}
        ELSE IF fail = "query" \/ ~includeLastMessage
        THEN {ChatsError("error executing query: %v")}
        ELSE {[err |-> "", chats |-> LimitOffset(ScanChats(s), lim, offset)] :
                 s \in OrdersBy(pairs, [p \in pairs |-> key[McpChat(p[1], p[2])]])}

NoMcpChat ==
    [JID |-> "", Name |-> "", LastMessageTime |-> ZeroTime,
     LastMessage |-> "", LastSender |-> "", LastIsFromMe |-> FALSE]

\* mcp.GetChat(chatJID, includeLastMessage): the first row of the chat, or
\* "chat with JID ... not found" on sql.ErrNoRows, "error reading data" on
\* another error.
McpGetChat(chatRows, messageRows, chatJID, includeLastMessage, fail) ==
    LET rows == UNION {IF includeLastMessage THEN LastMessageRows(messageRows, c)
                       ELSE {McpChat(c, NullMessage)} :
                          c \in {c \in chatRows : c.jid = chatJID}}
    IN  IF fail = "open" THEN {[err |-> "unable to open database: %v", chat |-> NoMcpChat]}
        ELSE IF fail = "query" THEN {[err |-> "error reading data: %v", chat |-> NoMcpChat]}
        ELSE IF rows = {} THEN {[err |-> "chat with JID %s not found", chat |-> NoMcpChat]}
        ELSE {[err |-> "", chat |-> r] : r \in rows}

\* Variant of SenderMatches: the sender is the phone number itself.
SenderMatchesExact(sender, phoneNumber) == Chars(sender) = phoneNumber

\* m.sender = ? OR m.sender LIKE ?, with phoneNumber and "%"+phoneNumber+"%"
SenderMatches(sender, phoneNumber) ==
    \/ Chars(sender) = phoneNumber
    \/ Like(Chars(sender), <<"%">> \o phoneNumber \o <<"%">>)

\* GetContactChats: the set of its possible results. The inner JOIN messages
\* as m keeps the chats that have a message; WHERE keeps the rows whose chat
\* is jid or whose m is of the contact; GROUP BY chats.jid leaves one row a
\* chat, with the last-message columns of any row of the group.
GetContactChats(chatRows, messageRows, jid, limit, page, fail) ==
    LET lim == NormLimit(limit)
        offset == NormPage(page) * lim
        phoneNumber == LocalPart(jid)
        kept == {c \in chatRows :
                    \E m \in messageRows :
                        /\ m.chat_jid = c.jid
                        /\ c.jid = jid \/ SenderMatches(m.sender, phoneNumber)}
        groups == {f \in [kept -> UNION {LastMessageRows(messageRows, c) : c \in kept}] :
                      \A c \in kept : f[c] \in LastMessageRows(messageRows, c)}
    IN  IF fail = "open" THEN {ChatsError("unable to open database: %v")}
        ELSE IF fail = "query" THEN {ChatsError("error executing query: %v")}
        ELSE {[err |-> "", chats |-> LimitOffset(s, lim, offset)] : s \in
                 UNION {OrdersBy({f[c] : c \in kept},
                                 ChatSortKey({f[c] : c \in kept}, "last_active")) :
                            f \in groups}}

\* GetLastInteraction: the set of its possible results: the first row, newest
\* first, of the messages of chat jid or of the contact; "no message found"
\* on sql.ErrNoRows, "error reading data" on another error.
GetLastInteraction(chatRows, messageRows, jid, fail) ==
    LET phoneNumber == LocalPart(jid)
        rows == {McpMessage(p[1], p[2]) : p \in
                    {p \in Joined(chatRows, messageRows) :
                        \/ p[1].chat_jid = jid
                        \/ SenderMatches(p[1].sender, phoneNumber)}}
    IN  IF fail = "open" THEN {[err |-> "unable to open database: %v", msg |-> NoMessage]}
        ELSE IF fail = "query" THEN {[err |-> "error reading data: %v", msg |-> NoMessage]}
        ELSE IF rows = {}
        THEN {[err |-> "no message found for contact with JID %s", msg |-> NoMessage]}
        ELSE {[err |-> "", msg |-> Head(s)] : s \in DescOrders(rows)}

\* LIMIT 50 of SearchContacts
SearchLimit == 50

\* One scanned row of SearchContacts: mcp.Contact, the phone number being
\* strings.Split(contact.JID, "@")[0].
Contact(c) == [JID |-> c.jid, Name |-> c.name, PhoneNumber |-> LocalPart(c.jid)]

\* ORDER BY name, jid: the number of rows that sort before r.
ContactSortKey(S) ==
    [r \in S |-> Cardinality({x \in S : \/ StrLess(x.Name, r.Name)
                                        \/ x.Name = r.Name /\ StrLess(x.JID, r.JID)})]

\* SearchContacts(query): the set of its possible results. The rows of chats
\* whose name or jid is LIKE "%"+query+"%" (the characters % and _ of the
\* query are wildcards of the pattern) and whose jid is NOT LIKE '%@g.us'.
SearchContacts(chatRows, query, fail) ==
    LET rows == {Contact(c) : c \in
                    {c \in chatRows :
                        /\ LikeContains(c.name, query) \/ LikeContains(c.jid, query)
                        /\ ~Like(Chars(c.jid), <<"%", "@", "g", ".", "u", "s">>)}}
    IN  IF fail = "open" THEN {[err |-> "unable to open database: %v", contacts |-> <<>>]}
        ELSE IF fail = "query" THEN {[err |-> "error executing query: %v", contacts |-> <<>>]}
        ELSE {[err |-> "", contacts |-> LimitOffset(s, SearchLimit, 0)] :
                 s \in OrdersBy(rows, ContactSortKey(rows))}

(***************************************************************************)
(* Channel and consumer.                                                   *)
(***************************************************************************)
\* make(chan models.Chat): no buffer.
ChanCap == 0

VARIABLES
    chats,      \* rows of table chats
    messages,   \* rows of table messages
    sendq,      \* sends on ChatChan not yet received, in order: the first
                \* ChanCap are buffered, the rest are blocked senders
    pc,         \* consumer goroutine: "recv" | "chat" | "msgs"
    cur,        \* the send the consumer is applying
    idx,        \* index into cur.chat.Messages of the next StoreMessage
    lastErr,    \* what the last storeChatAndMessage returned
    nHandled,   \* protocol events given to the handler so far
    nSent,      \* sends started on ChatChan so far
    received,   \* history: sequence numbers of the sends received, in order
    log,        \* history: the store calls made, in order
    finished,   \* history: the storeChatAndMessage calls that returned
    since,      \* history, per chat: what the events applied since a
                \* history sync carried, while none of them failed
    reply,      \* what the last call of the query engine returned
    qrCall      \* a call of whatsapp.GetQR: where it stands, its locals

vars == <<chats, messages, sendq, pc, cur, idx, lastErr, nHandled, nSent,
          received, log, finished, since, reply, qrCall>>

ChatKeys == JIDs \cup {""}

NoChat == [n |-> 0, kind |-> "none", chat |-> Chat("", "", ZeroTime, <<>>)]
NoReply == [op |-> "none"]
\* No call of GetQR yet: qr is the local qr, connected the number of values
\* in the buffered channel connected, seen the events read from qrChan.
NoQR ==
    [pc |-> "idle", qrChan |-> <<>>, qr |-> "", connected |-> 0, seen |-> <<>>,
     val |-> "", err |-> ""]
NoSince == [active |-> FALSE, rows |-> {}, lmt |-> ZeroTime, kinds |-> <<>>]

Init ==
    /\ chats = {}
    /\ messages = {}
    /\ sendq = <<>>
    /\ pc = "recv"
    /\ cur = NoChat
    /\ idx = 0
    /\ lastErr = "none"
    /\ nHandled = 0
    /\ nSent = 0
    /\ received = <<>>
    /\ log = <<>>
    /\ finished = <<>>
    /\ since = [c \in ChatKeys |-> NoSince]
    /\ reply = NoReply
    /\ qrCall = NoQR

\* Variant of ProducerFree: a channel with room for one more send.
ProducerFreeBuffered(q) == Len(q) <= ChanCap + 1

\* The handler is not blocked in `w.ChatChan <- chat`: every send it started
\* has completed.
ProducerFree(q) == Len(q) <= ChanCap

\* `w.ChatChan <- chat`
Send(kind, chat) ==
    /\ sendq' = Append(sendq, [n |-> nSent + 1, kind |-> kind, chat |-> chat])
    /\ nSent' = nSent + 1

\* case *events.Message of the event handler.
OnMessage ==
    /\ nHandled < MaxEvents
    /\ ProducerFree(sendq)
    /\ nHandled' = nHandled + 1
    /\ \E id \in MsgIDs, chatJID \in JIDs, sender \in Senders,
          content \in LiveContents, ts \in Times :
          LET r == handleMessage(id, chatJID, sender, content, ts, FALSE) IN
          IF r.err
          THEN UNCHANGED <<sendq, nSent>>
          ELSE Send("live", LiveChat(r.msg))
    /\ UNCHANGED <<chats, messages, pc, cur, idx, lastErr, received, log, finished, since, reply, qrCall>>

\* The entries of a conversation that carry a text, and the two that are
\* skipped: one without a message body, one with an empty extended text.
TextEntries ==
    {HistEntry(TRUE, "hi", ts, id, s, FALSE) : ts \in Times, id \in MsgIDs, s \in Senders}
SkippedEntries ==
    {HistEntry(FALSE, "", 1, "A", "", FALSE), HistEntry(TRUE, "", 1, "A", "", FALSE)}

RECURSIVE SeqsUpTo(_, _)
SeqsUpTo(S, n) ==
    IF n = 0 THEN {<<>>}
    ELSE LET shorter == SeqsUpTo(S, n - 1)
         IN  shorter \cup {Append(s, x) : s \in shorter, x \in S}

\* The protocol gives the messages of one conversation distinct key ids.
DistinctKeys(entries) ==
    \A i, j \in 1..Len(entries) : i # j => entries[i].id # entries[j].id

\* The entry lists of a conversation: up to MaxHistMsgs entries, the texts
\* with at most one skipped entry before or after them.
EntryLists ==
    LET texts == {s \in SeqsUpTo(TextEntries, MaxHistMsgs) : DistinctKeys(s)}
        room == {s \in texts : Len(s) < MaxHistMsgs}
    IN  texts \cup {<<k>> \o s : k \in SkippedEntries, s \in room}
              \cup {Append(s, k) : k \in SkippedEntries, s \in room}

Conversation(id, name, msgs) == [id |-> id, name |-> name, msgs |-> msgs]

Conversations ==
    {Conversation(id, name, msgs) : id \in HistJIDs, name \in HistNames, msgs \in EntryLists}

\* A conversation without id, and a second conversation of a payload.
NoIdConversation == Conversation("", "Nobody", <<HistEntry(TRUE, "hi", 1, "A", "", FALSE)>>)
SecondConversation ==
    Conversation("1@s.whatsapp.net", "Second", <<HistEntry(TRUE, "hi", 1, "B", "", FALSE)>>)

\* The payloads: no conversation, one, and two of which the first or the
\* second has no id or is another chat's.
HistoryPayloads ==
    {<<>>, <<NoIdConversation>>}
    \cup {<<c>> : c \in Conversations}
    \cup {<<NoIdConversation, c>> : c \in {d \in Conversations : Len(d.msgs) <= 1}}
    \cup {<<c, SecondConversation>> : c \in {d \in Conversations : Len(d.msgs) <= 1}}

\* case *events.HistorySync of the event handler.
OnHistorySync ==
    /\ nHandled < MaxEvents
    /\ ProducerFree(sendq)
    /\ nHandled' = nHandled + 1
    /\ \E payload \in HistoryPayloads : Send("history", handleHistorySync(payload))
    /\ UNCHANGED <<chats, messages, pc, cur, idx, lastErr, received, log, finished, since, reply, qrCall>>

\* Variant of ConsumerReady: the next send is received while one is applied.
ConsumerReadyAlways(p) == TRUE

\* The consumer is at `for chat := range whatsapp.ChatChan`.
ConsumerReady(p) == p = "recv"

\* The consumer receives the next send.
Recv ==
    /\ ConsumerReady(pc)
    /\ sendq # <<>>
    /\ cur' = Head(sendq)
    /\ sendq' = Tail(sendq)
    /\ received' = Append(received, Head(sendq).n)
    /\ pc' = "chat"
    /\ idx' = 0
    /\ UNCHANGED <<chats, messages, lastErr, nHandled, nSent, log, finished, since, reply, qrCall>>

LogEntry(ev, op, i, ok) == [ev |-> ev, op |-> op, idx |-> i, ok |-> ok]

\* Variant of AfterChat: the consumer loop ends on an error.
AfterChatExit(err, nMsgs) ==
    IF err THEN [pc |-> "exit", idx |-> 0, ret |-> "chat"]
    ELSE IF nMsgs = 0 THEN [pc |-> "recv", idx |-> 0, ret |-> "none"]
    ELSE [pc |-> "msgs", idx |-> 1, ret |-> "pending"]

\* Variant of AfterChat: the error of the chat upsert is passed over.
AfterChatIgnoreError(err, nMsgs) ==
    IF nMsgs = 0 THEN [pc |-> "recv", idx |-> 0, ret |-> "none"]
    ELSE [pc |-> "msgs", idx |-> 1, ret |-> "pending"]

\* Where storeChatAndMessage goes after s.db.StoreChat returned err: back to
\* the loop with the error, or with nil when there is no message, else on to
\* the first message.
AfterChat(err, nMsgs) ==
    IF err THEN [pc |-> "recv", idx |-> 0, ret |-> "chat"]
    ELSE IF nMsgs = 0 THEN [pc |-> "recv", idx |-> 0, ret |-> "none"]
    ELSE [pc |-> "msgs", idx |-> 1, ret |-> "pending"]

\* Variant of AfterMessage: a failed message is skipped and the loop goes on.
AfterMessageSkip(err, i, nMsgs) ==
    IF i < nMsgs THEN [pc |-> "msgs", idx |-> i + 1, ret |-> "pending"]
    ELSE [pc |-> "recv", idx |-> 0, ret |-> "none"]

\* Where storeChatAndMessage goes after s.db.StoreMessage of message i of
\* nMsgs returned err: back to the loop with the error, else on to the next
\* message, or back to the loop with nil after the last one.
AfterMessage(err, i, nMsgs) ==
    IF err THEN [pc |-> "recv", idx |-> 0, ret |-> "message"]
    ELSE IF i < nMsgs THEN [pc |-> "msgs", idx |-> i + 1, ret |-> "pending"]
    ELSE [pc |-> "recv", idx |-> 0, ret |-> "none"]

\* The non-empty messages of a sequence, as rows.
CarriedRows(msgs) == {MessageRow(msgs[i]) : i \in {j \in 1..Len(msgs) : msgs[j].Content # ""}}

\* History of one chat after storeChatAndMessage(e.chat) returned ret: a
\* failure forgets it, a history sync starts it, a later event extends it.
SinceAfter(s, e, ret) ==
    LET c == e.chat.JID
        rows == CarriedRows(e.chat.Messages)
        old == IF s[c].active THEN s[c].rows ELSE {}
    IN  IF ret # "none" THEN [s EXCEPT ![c] = NoSince]
        ELSE IF e.kind = "history" \/ s[c].active
        THEN [s EXCEPT ![c] =
                 [active |-> TRUE,
                  rows |-> {r \in old : \A n \in rows : n.id # r.id} \cup rows,
                  lmt |-> e.chat.LastMessageTime,
                  kinds |-> Append(IF s[c].active THEN s[c].kinds ELSE <<>>, e.kind)]]
        ELSE s

\* The return of storeChatAndMessage to the consumer loop, in the histories.
Returned(next) ==
    /\ finished' = IF next.ret = "pending" THEN finished
                   ELSE Append(finished, [n |-> cur.n, nMsgs |-> Len(cur.chat.Messages),
                                          ret |-> next.ret])
    /\ since' = IF next.ret = "pending" THEN since ELSE SinceAfter(since, cur, next.ret)

\* storeChatAndMessage, first statement: s.db.StoreChat(ctx, chat).
StoreChatStep ==
    /\ pc = "chat"
    /\ \E ioFail \in BOOLEAN :
          LET r == StoreChat(chats, cur.chat, ioFail)
              next == AfterChat(r.err, Len(cur.chat.Messages))
          IN  /\ chats' = r.chats
              /\ pc' = next.pc
              /\ idx' = next.idx
              /\ lastErr' = next.ret
              /\ log' = Append(log, LogEntry(cur.n, "chat", 0, ~r.err))
              /\ Returned(next)
    /\ UNCHANGED <<messages, sendq, cur, nHandled, nSent, received, reply, qrCall>>

\* storeChatAndMessage, one iteration of the loop: s.db.StoreMessage(ctx, msg).
StoreMessageStep ==
    /\ pc = "msgs"
    /\ \E ioFail \in BOOLEAN :
          LET r == StoreMessage(chats, messages, cur.chat.Messages[idx], ioFail)
              next == AfterMessage(r.err, idx, Len(cur.chat.Messages))
          IN  /\ messages' = r.messages
              /\ pc' = next.pc
              /\ idx' = next.idx
              /\ lastErr' = next.ret
              /\ log' = Append(log, LogEntry(cur.n, "msg", idx, ~r.err))
              /\ Returned(next)
    /\ UNCHANGED <<chats, sendq, cur, nHandled, nSent, received, reply, qrCall>>

Next == OnMessage \/ OnHistorySync \/ Recv \/ StoreChatStep \/ StoreMessageStep

Spec == Init /\ [][Next]_vars

\* The consumer goroutine is scheduled and every store call returns.
FairSpec ==
    Spec /\ WF_vars(Recv) /\ WF_vars(StoreChatStep) /\ WF_vars(StoreMessageStep)

(***************************************************************************)
(* Properties.                                                             *)
(***************************************************************************)
FinishedNums == {finished[i].n : i \in 1..Len(finished)}
ReceivedNums == {received[i] : i \in 1..Len(received)}
LastLog == log[Len(log)]
\* This step is a store call of the consumer.
StoreCallStep == log' # log
SameKey(a, b) == a.id = b.id /\ a.chat_jid = b.chat_jid

\* C1: in every reachable store state, the intermediate states of an event
\* included and with store failures, every stored message's chat_jid is the
\* jid of an existing chat row.
C1_ReferentialIntegrity ==
    \A m \in messages : \E c \in chats : c.jid = m.chat_jid

\* C1 witness: between two message upserts of an event, with a message of
\* another event stored and a store call that failed before.
C1_Witness ==
    /\ pc = "msgs" /\ idx = 2
    /\ \E m \in messages : MessageRow(cur.chat.Messages[1]) # m
    /\ \E i \in 1..Len(log) : ~log[i].ok

\* C2: StoreMessage with an empty content reports success and leaves both
\* tables unchanged, and no stored message ever has an empty content.
C2_EmptyContentDrop ==
    /\ [](\A m \in messages : m.content # "")
    /\ [][(pc = "msgs" /\ StoreCallStep /\ cur.chat.Messages[idx].Content = "")
             => (chats' = chats /\ messages' = messages /\ LastLog'.ok
                 /\ lastErr' # "message")]_vars

\* C2 witness: a live event with an empty content has been applied without
\* error and nothing of it is stored as a message.
C2_Witness ==
    /\ pc = "recv" /\ cur.kind = "live" /\ lastErr = "none"
    /\ cur.chat.Messages[1].Content = ""
    /\ LastLog = LogEntry(cur.n, "msg", 1, TRUE)
    /\ ChatRow(cur.chat) \in chats
    /\ messages = {}

\* C3: there is at most one message row per (id, chat_jid); a successful
\* upsert leaves exactly the upserted values under its key and keeps every row
\* of another key, another chat's row of the same id included.
C3_UniquenessScoping ==
    /\ [](\A a, b \in messages : SameKey(a, b) => a = b)
    /\ [][(pc = "msgs" /\ StoreCallStep /\ LastLog'.ok
              /\ cur.chat.Messages[idx].Content # "")
             => LET row == MessageRow(cur.chat.Messages[idx]) IN
                /\ row \in messages'
                /\ \A r \in messages' : SameKey(r, row) => r = row
                /\ {r \in messages' : ~SameKey(r, row)} = {r \in messages : ~SameKey(r, row)}]_vars

\* C3 witness: the upsert just made wrote a row whose id another chat's row
\* has too, and both rows are stored.
C3_Witness ==
    /\ pc = "recv" /\ lastErr = "none" /\ cur.kind # "none"
    /\ LastLog.op = "msg" /\ LastLog.ok
    /\ \E a, b \in messages :
           /\ a.id = b.id /\ a.chat_jid # b.chat_jid
           /\ a = MessageRow(cur.chat.Messages[Len(cur.chat.Messages)])

\* The Chat and Message values the upserts are tried on.
ChatValues ==
    {Chat(jid, name, lmt, <<>>) :
        jid \in ChatKeys, name \in Senders \cup HistNames, lmt \in Times}
MessageValues ==
    {Message(id, jid, sender, "hi", ts, FALSE) :
        id \in MsgIDs, jid \in JIDs, sender \in Senders, ts \in Times}
    \cup {Message(id, jid, sender, "", 1, FALSE) :
        id \in MsgIDs, jid \in JIDs, sender \in Senders}
Twice(msg) ==
    LET r1 == StoreMessage(chats, messages, msg, FALSE)
    IN  [r1 |-> r1, r2 |-> StoreMessage(chats, r1.messages, msg, FALSE)]
TwiceChat(chat) ==
    LET r1 == StoreChat(chats, chat, FALSE)
    IN  [r1 |-> r1, r2 |-> StoreChat(r1.chats, chat, FALSE)]

\* C4 as stated: on every store state and for every Chat or Message value,
\* the same upsert applied twice leaves the state of one application and the
\* second application reports no error.
C4_AsStated ==
    /\ \A c \in ChatValues :
           LET t == TwiceChat(c) IN t.r2 = [chats |-> t.r1.chats, err |-> FALSE]
    /\ \A m \in MessageValues :
           LET t == Twice(m) IN t.r2 = [messages |-> t.r1.messages, err |-> FALSE]

\* C4 amended: the same upsert applied twice leaves the state of one
\* application and the second application reports what the first reported:
\* no error for every Chat and for every Message that has an empty content
\* or whose chat row exists, the foreign-key error otherwise.
C4_IdempotentUpsert ==
    /\ \A c \in ChatValues :
           LET t == TwiceChat(c) IN t.r2 = [chats |-> t.r1.chats, err |-> FALSE]
    /\ \A m \in MessageValues :
           LET t == Twice(m) IN
           /\ t.r2 = t.r1
           /\ t.r1.err = (m.Content # "" /\ ~ForeignKeyOK(chats, MessageRow(m)))

\* C4 witness: a store where a second application meets the row the first
\* one wrote under other values, next to a chat that does not exist.
C4_Witness ==
    /\ \E m \in MessageValues :
           /\ MessageRow(m) \notin messages
           /\ \E r \in messages : SameKey(r, MessageRow(m))
    /\ \E m \in MessageValues : ~ForeignKeyOK(chats, MessageRow(m))

\* C5: the consumer receives the sends in the order they were started, the
\* store calls of a send all come before those of the next, and at most one
\* received send is not yet returned from.
C5_Ordering ==
    /\ \A i \in 1..Len(received) : received[i] = i
    /\ \A i, j \in 1..Len(log) : i < j => log[i].ev <= log[j].ev
    /\ \A i \in 1..Len(log) : \A k \in 1..(log[i].ev - 1) : k \in FinishedNums
    /\ Cardinality(ReceivedNums \ FinishedNums) <= 1
    /\ \A i \in 1..Len(finished) : finished[i].n = i

\* C5 witness: two events were applied, each with message upserts.
C5_Witness ==
    /\ Len(finished) = 2
    /\ \E i, j \in 1..Len(log) :
           log[i].ev = 1 /\ log[i].op = "msg" /\ log[j].ev = 2 /\ log[j].op = "msg"

\* The indices of the messages of the send numbered n whose upsert was called.
Attempted(n) == {log[i].idx : i \in {j \in 1..Len(log) : log[j].ev = n /\ log[j].op = "msg"}}
\* The indices of the messages of the send numbered n whose upsert failed.
Failed(n) ==
    {log[i].idx : i \in {j \in 1..Len(log) : log[j].ev = n /\ log[j].op = "msg" /\ ~log[j].ok}}
ChatAttempts(n) == Cardinality({i \in 1..Len(log) : log[i].ev = n /\ log[i].op = "chat"})

C7_NeverDropsAnEvent ==
    /\ [](/\ pc \in {"recv", "chat", "msgs"}
          /\ \A i, j \in 1..Len(received) : received[i] = received[j] => i = j
          /\ ReceivedNums \subseteq 1..nSent
          /\ \A n \in 1..nSent : ChatAttempts(n) <= 1
          /\ \A n \in FinishedNums : n \in ReceivedNums /\ ChatAttempts(n) = 1)
    /\ []<>(FinishedNums = 1..nSent)

\* C7 witness: an event was applied after one whose application failed.
C7_Witness ==
    /\ Len(finished) = 2
    /\ finished[1].ret # "none"
    /\ finished[2].n = 2 /\ ChatAttempts(2) = 1

\* The sends whose delivery has completed: all started ones but the one the
\* handler is still blocked in.
HandedOff == (1..nSent) \ (IF ProducerFree(sendq) THEN {} ELSE {sendq[Len(sendq)].n})

\* C8: a send completes only when the consumer receives it, at most one
\* handed-off event is not yet fully applied, and a send completes only after
\* the consumer is done with every earlier event.
C8_UnbufferedBackpressure ==
    /\ HandedOff \subseteq ReceivedNums
    /\ Cardinality(HandedOff \ FinishedNums) <= 1
    /\ \A n \in HandedOff : \A k \in 1..(n - 1) : k \in FinishedNums

\* C8 witness: the handler is blocked in the send of the second event while
\* the consumer is upserting the messages of the first.
C8_Witness ==
    /\ pc = "msgs" /\ cur.n = 1
    /\ Len(sendq) = 1 /\ sendq[1].n = 2
    /\ ~ProducerFree(sendq)

RowOf(m) ==
    [id |-> m.ID, chat_jid |-> m.ChatJID, sender |-> m.Sender, content |-> m.Content,
     timestamp |-> m.Timestamp, is_from_me |-> m.IsFromMe]
Elems(s) == {s[i] : i \in 1..Len(s)}

\* C9: once a history sync of chat c and the later events of c have been
\* applied without store failure, ListMessages(chatJID = c) with a limit of at
\* least the number of messages returns, newest first, one message per id the
\* events carried with a non-empty content (the values carried last), the
\* chat's last_message_time is the one of the last applied event, and no
\* store call removes the message of a key from the store.
C9_EndToEndRetention ==
    /\ [](pc = "recv" =>
            \A c \in JIDs : since[c].active =>
                /\ GetChat(chats, c).found
                /\ GetChat(chats, c).chat.last_message_time = since[c].lmt
                /\ \A limit \in {Cardinality(messages), Cardinality(messages) + 1, 0} :
                   \A res \in {r.messages : r \in ListMessages(chats, messages, NoRange, "", c, "",
                                                   limit, 0, FALSE, 0, 0, "none")} :
                       /\ since[c].rows \subseteq {RowOf(m) : m \in Elems(res)}
                       /\ \A i, j \in 1..Len(res) :
                              /\ i < j => res[i].Timestamp >= res[j].Timestamp
                              /\ res[i].ID = res[j].ID => i = j
                       /\ \A m \in Elems(res) : m.ChatJID = c /\ m.Content # "")
    /\ [][\A m \in messages : \E r \in messages' : SameKey(r, m)]_vars

\* C9 witness: a history sync and then a live message of another id and a
\* later timestamp are applied to the same chat, which lists both messages,
\* the live one first.
C9_Witness ==
    /\ pc = "recv" /\ cur.kind = "live"
    /\ \E c \in JIDs :
           /\ since[c].kinds = <<"history", "live">>
           /\ Cardinality(since[c].rows) = 2
           /\ \E res \in {r.messages : r \in ListMessages(chats, messages, NoRange, "", c, "",
                                                   0, 0, FALSE, 0, 0, "none")} :
                  /\ Len(res) = 2 /\ res[1].Timestamp > res[2].Timestamp
                  /\ RowOf(res[1]) = MessageRow(cur.chat.Messages[1])
           /\ GetChat(chats, c).chat.last_message_time = cur.chat.LastMessageTime

\* C10: a successful StoreChat(c) leaves one row of jid c.JID, holding c's name
\* and last_message_time whatever the row held before, and changes no other
\* chat row and no message row.
C10_ChatUpsertOverwrites ==
    [][(pc = "chat" /\ StoreCallStep /\ LastLog'.ok)
          => /\ {r \in chats' : r.jid = cur.chat.JID} = {ChatRow(cur.chat)}
             /\ {r \in chats' : r.jid # cur.chat.JID} = {r \in chats : r.jid # cur.chat.JID}
             /\ messages' = messages]_vars

\* C10 witness: a live event has replaced the name a history sync gave the
\* chat by the sender and moved last_message_time back, below the timestamp
\* of a stored message of the chat.
C10_Witness ==
    /\ pc = "recv" /\ cur.kind = "live" /\ lastErr = "none"
    /\ since[cur.chat.JID].kinds = <<"history", "live">>
    /\ \E c \in chats :
           /\ c.jid = cur.chat.JID /\ c.name \in Senders
           /\ \E m \in messages : m.chat_jid = c.jid /\ m.timestamp > c.last_message_time

(***************************************************************************)
(* The query engine called on a store: a reader task of the MCP server     *)
(* opens the database the bridge wrote and makes one call.                 *)
(***************************************************************************)
QTimes == 1..MaxStored
GroupJID == "9@g.us"
DirectJID == "1@s.whatsapp.net"

\* The keys of the stored messages: three ids in the group chat, and the
\* first of them in the direct chat too.
QKeys == {<<"A", GroupJID>>, <<"B", GroupJID>>, <<"C", GroupJID>>, <<"A", DirectJID>>}
QSender(id) == IF id = "B" THEN "19@s.whatsapp.net" ELSE "1@s.whatsapp.net"
QContent(id) == IF id = "B" THEN "Hello" ELSE "hi"
QName(jid) == IF jid = GroupJID THEN "Family" ELSE "bob"

QMessageRow(k, ts) == MessageRow(Message(k[1], k[2], QSender(k[1]), QContent(k[1]), ts, FALSE))

\* The message tables: up to MaxStored rows, one a key at most.
QMessageTables ==
    UNION {{{QMessageRow(k, f[k]) : k \in K} : f \in [K -> QTimes]} :
              K \in {K \in SUBSET QKeys : Cardinality(K) <= MaxStored}}

\* The chat tables a message table can stand with: a row for every chat that
\* has a message (the foreign key), with the first or the last instant as
\* last_message_time, as a later event of the chat may have left it.
QLastTimes == {1, MaxStored}
QChatTables(messageRows) ==
    UNION {{{ChatRow(Chat(c, QName(c), f[c], <<>>)) : c \in C} : f \in [C -> QLastTimes]} :
              C \in {C \in SUBSET JIDs : \A m \in messageRows : m.chat_jid \in C}}

QInit ==
    /\ messages \in QMessageTables
    /\ chats \in QChatTables(messages)
    /\ sendq = <<>>
    /\ pc = "recv"
    /\ cur = NoChat
    /\ idx = 0
    /\ lastErr = "none"
    /\ nHandled = 0
    /\ nSent = 0
    /\ received = <<>>
    /\ log = <<>>
    /\ finished = <<>>
    /\ since = [c \in ChatKeys |-> NoSince]
    /\ reply = NoReply
    /\ qrCall = NoQR

\* A call returns to the reader.
Return(op, args, results) ==
    /\ reply = NoReply
    /\ qrCall = NoQR
    /\ \E r \in results : reply' = [op |-> op, args |-> args, res |-> r]
    /\ UNCHANGED <<chats, messages, sendq, pc, cur, idx, lastErr, nHandled, nSent,
                   received, log, finished, since, qrCall>>

ContextIDs == {"A", "B", "C", "Z"}

GetMessageContextCall ==
    \E messageID \in ContextIDs, before \in 0..2, after \in 0..1,
       fail \in {"none", "open", "target", "before", "after"} :
          /\ fail # "none" => before = 1 /\ after = 1 /\ messageID \in {"A", "Z"}
          /\ Return("GetMessageContext",
                    [messageID |-> messageID, before |-> before, after |-> after, fail |-> fail],
                    GetMessageContext(chats, messages, messageID, before, after, fail))

ListArgs(dateRange, sender, chatJID, query, limit, page, includeContext, before, after, fail) ==
    [dateRange |-> dateRange, senderPhoneNumber |-> sender, chatJID |-> chatJID,
     query |-> query, limit |-> limit, page |-> page, includeContext |-> includeContext,
     contextBefore |-> before, contextAfter |-> after, fail |-> fail]

QRanges == {d \in QTimes \X QTimes : d[1] <= d[2]}

\* The calls of ListMessages: the filters, the pages, the context expansion
\* and the failures, each varied with the others at rest.
ListMessagesArgs ==
    {ListArgs(NoRange, s, c, q, 0, 0, FALSE, 0, 0, "none") :
        s \in {"", "19@s.whatsapp.net"}, c \in {"", GroupJID}, q \in {"", "EL"}}
    \cup {ListArgs(d, s, "", "", 0, 0, FALSE, 0, 0, "none") :
        d \in QRanges, s \in {"", "19@s.whatsapp.net"}}
    \cup {ListArgs(NoRange, "", "", "", l, p, FALSE, 0, 0, "none") :
        l \in {0, 1, 2}, p \in {-1, 0, 1}}
    \cup {ListArgs(NoRange, "", "", "", l, 0, TRUE, b, a, "none") :
        l \in {0, 1}, b \in 0..1, a \in 0..1}
    \cup {ListArgs(NoRange, "", "", "", 0, 0, c, 1, 1, f) :
        c \in BOOLEAN, f \in {"open", "query", "context"}}

ListMessagesCall ==
    \E a \in ListMessagesArgs :
        /\ a.fail = "context" => a.includeContext
        /\ Return("ListMessages", a,
               ListMessages(chats, messages, a.dateRange, a.senderPhoneNumber, a.chatJID,
                            a.query, a.limit, a.page, a.includeContext,
                            a.contextBefore, a.contextAfter, a.fail))

ListChatsCall ==
    \E query \in {"", "fam"}, limit \in {0, 1}, page \in {-1, 0, 1},
       includeLastMessage \in BOOLEAN, sortBy \in {"name", "last_active"},
       fail \in {"none", "open", "query"} :
          /\ (fail # "none" \/ ~includeLastMessage) => query = "" /\ limit = 0 /\ page = 0
          /\ query # "" => limit = 0 /\ page = 0
          /\ Return("ListChats",
                    [query |-> query, limit |-> limit, page |-> page,
                     includeLastMessage |-> includeLastMessage, sortBy |-> sortBy,
                     fail |-> fail],
                    ListChats(chats, messages, query, limit, page, includeLastMessage,
                              sortBy, fail))

ContactJIDs == {DirectJID, GroupJID, "7@s.whatsapp.net"}

McpGetChatCall ==
    \E chatJID \in ContactJIDs, includeLastMessage \in BOOLEAN,
       fail \in {"none", "open", "query"} :
          /\ fail # "none" => includeLastMessage
          /\ Return("mcp.GetChat",
                 [chatJID |-> chatJID, includeLastMessage |-> includeLastMessage, fail |-> fail],
                 McpGetChat(chats, messages, chatJID, includeLastMessage, fail))

\* db.GetChat of the bridge's store: nil, nil on sql.ErrNoRows, nil and the
\* error on another error.
GetChatCall ==
    \E jid \in ContactJIDs, fail \in BOOLEAN :
        /\ fail => jid = DirectJID
        /\ Return("db.GetChat", [jid |-> jid, fail |-> fail],
               {IF fail
                THEN [err |-> TRUE, found |-> FALSE, chat |-> GetChat({}, jid).chat]
                ELSE [err |-> FALSE, found |-> GetChat(chats, jid).found,
                      chat |-> GetChat(chats, jid).chat]})

GetContactChatsCall ==
    \E jid \in ContactJIDs, limit \in {0, 1}, page \in {-1, 0, 1},
       fail \in {"none", "open", "query"} :
          /\ fail # "none" => limit = 0 /\ page = 0 /\ jid = DirectJID
          /\ Return("GetContactChats",
                    [jid |-> jid, limit |-> limit, page |-> page, fail |-> fail],
                    GetContactChats(chats, messages, jid, limit, page, fail))

GetLastInteractionCall ==
    \E jid \in ContactJIDs, fail \in {"none", "open", "query"} :
        /\ fail = "open" => jid = DirectJID
        /\ Return("GetLastInteraction", [jid |-> jid, fail |-> fail],
               GetLastInteraction(chats, messages, jid, fail))

SearchQueries == {"", "BO", "fam", "_"}

SearchContactsCall ==
    \E query \in SearchQueries, fail \in {"none", "open", "query"} :
        /\ fail # "none" => query = ""
        /\ Return("SearchContacts", [query |-> query, fail |-> fail],
               SearchContacts(chats, query, fail))

QNext ==
    \/ SearchContactsCall
    \/ GetMessageContextCall
    \/ ListMessagesCall
    \/ ListChatsCall
    \/ McpGetChatCall
    \/ GetChatCall
    \/ GetContactChatsCall
    \/ GetLastInteractionCall

QuerySpec == QInit /\ [][QNext]_vars

(***************************************************************************)
(* Properties of the query engine.                                         *)
(***************************************************************************)
Min(a, b) == IF a <= b THEN a ELSE b
Max(a, b) == IF a >= b THEN a ELSE b

\* The call that returned, and whether it returned a result.
Called(op) == reply.op = op
Succeeded(op) == reply.op = op /\ reply.res.err = ""

\* The stored messages of a chat, as the query engine returns them.
MessagesOfChat(jid) ==
    {McpMessage(p[1], p[2]) : p \in {q \in Joined(chats, messages) : q[1].chat_jid = jid}}

\* C11: GetMessageContext returns Before in ascending order of timestamp, and
\* After in ascending order of timestamp.
C11_AsStated ==
    Succeeded("GetMessageContext") =>
        /\ \A i, j \in 1..Len(reply.res.Before) :
               i < j => reply.res.Before[i].Timestamp <= reply.res.Before[j].Timestamp
        /\ \A i, j \in 1..Len(reply.res.After) :
               i < j => reply.res.After[i].Timestamp <= reply.res.After[j].Timestamp

\* The n members of S nearest to the target: no member left out is nearer
\* than one taken (nearer(x, y): x is at least as near as y).
Nearest(side, S, n, laterIsNearer) ==
    /\ Len(side) = Min(n, Cardinality(S))
    /\ Cardinality(Elems(side)) = Len(side)
    /\ Elems(side) \subseteq S
    /\ \A x \in Elems(side), y \in S \ Elems(side) :
           IF laterIsNearer THEN x.Timestamp >= y.Timestamp ELSE x.Timestamp <= y.Timestamp

\* C12: Before holds exactly the min(before, number of earlier) messages of
\* the target's chat with the greatest timestamps strictly below the
\* target's, After the min(after, number of later) with the smallest strictly
\* above; no side holds the target or a message of another chat.
C12_AsStated ==
    Succeeded("GetMessageContext") =>
        LET target == reply.res.Message
            own == MessagesOfChat(target.ChatJID)
        IN  /\ Nearest(reply.res.Before, {m \in own : m.Timestamp < target.Timestamp},
                       reply.args.before, TRUE)
            /\ Nearest(reply.res.After, {m \in own : m.Timestamp > target.Timestamp},
                       reply.args.after, FALSE)

\* C13: a lookup that matches no row ends otherwise than one whose query
\* fails: db.GetChat returns absent without error, GetMessageContext and
\* GetLastInteraction return their not-found error, and a failed query
\* returns an error that is not the not-found one.
C13_AsStated ==
    /\ Called("db.GetChat") =>
           /\ reply.args.fail => reply.res.err
           /\ (~reply.args.fail /\ \A c \in chats : c.jid # reply.args.jid)
                  => ~reply.res.err /\ ~reply.res.found
    /\ Called("GetMessageContext") =>
           /\ (reply.args.fail = "none" /\ \A m \in messages : m.id # reply.args.messageID)
                  => reply.res.err = "message with ID %s not found: %v"
           /\ reply.args.fail # "none"
                  => reply.res.err \notin {"", "message with ID %s not found: %v"}
    /\ Called("GetLastInteraction") =>
           /\ (reply.args.fail = "none" /\ messages = {})
                  => reply.res.err = "no message found for contact with JID %s"
           /\ reply.args.fail # "none"
                  => reply.res.err \notin {"", "no message found for contact with JID %s"}

\* res is the items ranked off+1 .. off+lim of rows in ascending order of
\* key, fewer if rows ends earlier: item i has at most off+i-1 rows strictly
\* before it and at least off+i rows not after it.
PageOf(res, rows, key, lim, off) ==
    /\ Len(res) = Max(0, Min(lim, Cardinality(rows) - off))
    /\ \A i \in 1..Len(res) :
           /\ res[i] \in rows
           /\ \A j \in 1..Len(res) : res[i] = res[j] => i = j
           /\ Cardinality({r \in rows : key[r] < key[res[i]]}) <= off + i - 1
           /\ Cardinality({r \in rows : key[r] <= key[res[i]]}) >= off + i

\* PageOf for rows of which several may scan to one value: val is the
\* scanned value of a row, and a value comes no more often than rows have it.
PageOfRows(res, rows, val, key, lim, off) ==
    /\ Len(res) = Max(0, Min(lim, Cardinality(rows) - off))
    /\ \A i \in 1..Len(res) :
           \E r \in rows :
               /\ val[r] = res[i]
               /\ Cardinality({x \in rows : key[x] < key[r]}) <= off + i - 1
               /\ Cardinality({x \in rows : key[x] <= key[r]}) >= off + i
    /\ \A r \in rows :
           Cardinality({i \in 1..Len(res) : res[i] = val[r]})
               <= Cardinality({x \in rows : val[x] = val[r]})

\* The limit and the offset the shared contract gives a call.
ContractLimit == IF reply.args.limit <= 0 THEN 20 ELSE reply.args.limit
ContractOffset == (IF reply.args.page < 0 THEN 0 ELSE reply.args.page) * ContractLimit

\* The chats GetContactChats is to list for the jid of the call: those that
\* have a message and are jid or hold a message of the contact.
ContactChatJIDs ==
    {c.jid : c \in {c \in chats :
        \E m \in messages :
            /\ m.chat_jid = c.jid
            /\ c.jid = reply.args.jid \/ SenderMatches(m.sender, LocalPart(reply.args.jid))}}

\* C14: ListMessages (without context expansion), ListChats and
\* GetContactChats take 20 for limit <= 0 and 0 for page < 0, and return the
\* items ranked page*limit+1 to page*limit+limit of the filtered, ordered
\* result, fewer if it ends earlier.
C14_Pagination ==
    /\ (Succeeded("ListMessages") /\ ~reply.args.includeContext) =>
           LET a == reply.args
               rows == ListMessagesRows(chats, messages, a.dateRange, a.senderPhoneNumber,
                                        a.chatJID, a.query)
           IN  PageOf(reply.res.messages, rows, [r \in rows |-> 0 - r.Timestamp],
                      ContractLimit, ContractOffset)
    /\ Succeeded("ListChats") =>
           LET pairs == ListChatsPairs(chats, messages, reply.args.query)
               key == ChatSortKey({McpChat(p[1], p[2]) : p \in pairs}, reply.args.sortBy)
           IN  PageOfRows(reply.res.chats, pairs,
                          [p \in pairs |-> McpChat(p[1], p[2])],
                          [p \in pairs |-> key[McpChat(p[1], p[2])]],
                          ContractLimit, ContractOffset)
    /\ Succeeded("GetContactChats") =>
           PageOf([i \in 1..Len(reply.res.chats) |-> reply.res.chats[i].JID],
                  ContactChatJIDs,
                  [j \in ContactChatJIDs |->
                      0 - (CHOOSE c \in chats : c.jid = j).last_message_time],
                  ContractLimit, ContractOffset)

\* C14 witness: limit 1 and page 1 over three messages of distinct timestamps
\* return the second most recent alone, and limit 0 and page -1 all three.
C14_Witness ==
    /\ Succeeded("ListMessages") /\ ~reply.args.includeContext
    /\ reply.args.chatJID = "" /\ reply.args.dateRange = NoRange
    /\ reply.args.limit = 1 /\ reply.args.page = 1
    /\ Cardinality({m.timestamp : m \in messages}) = 3
    /\ Len(reply.res.messages) = 1
    /\ Cardinality({m \in messages : m.timestamp > reply.res.messages[1].Timestamp}) = 1

\* x contains y, case folded.
Contains(x, y) ==
    \E i \in 1..(Len(x) - Len(y) + 1) :
        \A j \in 1..Len(y) : Lower(x[i + j - 1]) = Lower(y[j])

\* C15: without context expansion, ListMessages returns only stored messages
\* that satisfy every predicate of the call (timestamp within [start, end],
\* sender equal, chat_jid equal, content containing the query without regard
\* to case), every stored message when the call has no predicate, and the
\* result is in non-increasing order of timestamp.
C15_AsStated ==
    (Succeeded("ListMessages") /\ ~reply.args.includeContext) =>
        LET a == reply.args
            res == reply.res.messages
        IN  /\ \A i \in 1..Len(res) :
                   /\ RowOf(res[i]) \in messages
                   /\ Len(a.dateRange) = 2 =>
                          /\ a.dateRange[1] <= res[i].Timestamp
                          /\ res[i].Timestamp <= a.dateRange[2]
                   /\ a.senderPhoneNumber # "" => res[i].Sender = a.senderPhoneNumber
                   /\ a.chatJID # "" => res[i].ChatJID = a.chatJID
                   /\ a.query # "" => Contains(Chars(res[i].Content), Chars(a.query))
            /\ (/\ Len(a.dateRange) # 2 /\ a.senderPhoneNumber = "" /\ a.chatJID = ""
                /\ a.query = "" /\ a.limit = 0 /\ a.page = 0)
                   => {RowOf(res[i]) : i \in 1..Len(res)} = messages
            /\ \A i, j \in 1..Len(res) : i < j => res[i].Timestamp >= res[j].Timestamp

\* C16: with context expansion every matched message appears in the result,
\* and with no neighbour asked for the result is the list of the matches.
C16_AsStated ==
    (Succeeded("ListMessages") /\ reply.args.includeContext /\ reply.args.fail = "none") =>
        LET a == reply.args
            matches == {r.messages : r \in
                           ListMessages(chats, messages, a.dateRange, a.senderPhoneNumber,
                                        a.chatJID, a.query, a.limit, a.page, FALSE, 0, 0,
                                        "none")}
        IN  /\ a.limit = 0 => {RowOf(m) : m \in Elems(reply.res.messages)} = messages
            /\ (a.contextBefore = 0 /\ a.contextAfter = 0) => reply.res.messages \in matches

\* C17: ListChats with sortBy = "name" returns the chats in non-decreasing
\* order of name (byte order), whatever their last_message_time, and with
\* another sortBy in non-increasing order of last_message_time.
C17_ChatSortModes ==
    Succeeded("ListChats") =>
        \A i, j \in 1..Len(reply.res.chats) :
            i < j =>
                IF reply.args.sortBy = "name"
                THEN ~StrLess(reply.res.chats[j].Name, reply.res.chats[i].Name)
                ELSE reply.res.chats[i].LastMessageTime >= reply.res.chats[j].LastMessageTime

\* C17 witness: sorted by name, the chat of the older last_message_time comes
\* first.
C17_Witness ==
    /\ Succeeded("ListChats") /\ reply.args.sortBy = "name"
    /\ Len(reply.res.chats) = 2
    /\ StrLess(reply.res.chats[1].Name, reply.res.chats[2].Name)
    /\ reply.res.chats[1].LastMessageTime < reply.res.chats[2].LastMessageTime

\* The last-message fields of the returned chat x are those of a stored
\* message of the chat at the chat's last_message_time, and absent when the
\* store holds no such message.
EqualityJoined(x) ==
    LET match == {m \in messages : m.chat_jid = x.JID /\ m.timestamp = x.LastMessageTime}
    IN  IF match = {}
        THEN x.LastMessage = "" /\ x.LastSender = "" /\ ~x.LastIsFromMe
        ELSE \E m \in match :
                 /\ x.LastMessage = m.content
                 /\ x.LastSender = m.sender
                 /\ x.LastIsFromMe = m.is_from_me

\* C18: whenever a reader lists the chats, or gets one, with
\* includeLastMessage, every stored chat is returned, with the last-message
\* fields of a stored message of that chat whose timestamp equals the chat's
\* last_message_time, or with absent fields when there is no such message.
C18_LastMessageEqualityJoin ==
    /\ \A r \in ListChats(chats, messages, "", 0, 0, TRUE, "last_active", "none") :
           /\ r.err = ""
           /\ {[jid |-> x.JID, name |-> x.Name, last_message_time |-> x.LastMessageTime] :
                  x \in Elems(r.chats)} = chats
           /\ \A x \in Elems(r.chats) : EqualityJoined(x)
    /\ \A c \in chats :
           \A r \in McpGetChat(chats, messages, c.jid, TRUE, "none") :
               r.err = "" /\ r.chat.JID = c.jid /\ EqualityJoined(r.chat)

\* C18 witness: a reader runs between the chat upsert and the message upsert
\* of an event: the event's chat is listed without last message, next to a
\* chat listed with the message an earlier event stored.
C18_Witness ==
    /\ pc = "msgs" /\ idx = 1 /\ cur.chat.Messages[1].Content # ""
    /\ cur.chat.Messages[1].Timestamp = cur.chat.LastMessageTime
    /\ \E r \in ListChats(chats, messages, "", 0, 0, TRUE, "last_active", "none") :
           /\ \E x \in Elems(r.chats) : x.JID = cur.chat.JID /\ x.LastMessage = ""
           /\ \E x \in Elems(r.chats) : x.JID # cur.chat.JID /\ x.LastMessage = "hi"

\* The sender is the local part of jid or contains it.
OfContact(sender, jid) ==
    \/ Chars(sender) = LocalPart(jid)
    \/ Contains(Chars(sender), LocalPart(jid))

\* C19: GetContactChats(jid) returns every chat whose jid is jid, also one
\* without stored message, and every chat with a message whose sender is or
\* contains the local part of jid, each chat once, in non-increasing order of
\* last_message_time.
C19_AsStated ==
    (Succeeded("GetContactChats") /\ reply.args.limit = 0) =>
        LET res == reply.res.chats
        IN  /\ \A c \in chats :
                   (\/ c.jid = reply.args.jid
                    \/ \E m \in messages :
                           m.chat_jid = c.jid /\ OfContact(m.sender, reply.args.jid))
                       => \E i \in 1..Len(res) : res[i].JID = c.jid
            /\ \A i, j \in 1..Len(res) :
                   /\ res[i].JID = res[j].JID => i = j
                   /\ i < j => res[i].LastMessageTime >= res[j].LastMessageTime

\* C20: GetLastInteraction(jid) returns a message of the greatest timestamp
\* among the stored messages of chat jid or of a sender that is or contains
\* the local part of jid, and its not-found error when, and only when, no
\* stored message is one of these.
C20_LastInteraction ==
    (Called("GetLastInteraction") /\ reply.args.fail = "none") =>
        LET matching == {m \in messages :
                            \/ m.chat_jid = reply.args.jid
                            \/ OfContact(m.sender, reply.args.jid)}
        IN  IF matching = {}
            THEN reply.res.err = "no message found for contact with JID %s"
            ELSE /\ reply.res.err = ""
                 /\ RowOf(reply.res.msg) \in matching
                 /\ \A m \in matching : m.timestamp <= reply.res.msg.Timestamp

\* C20 witness: the last interaction with the contact 1@s.whatsapp.net is
\* found by the sender, in the group, later than the message of the direct
\* chat.
C20_Witness ==
    /\ Succeeded("GetLastInteraction") /\ reply.args.jid = DirectJID
    /\ \E m \in messages : m.chat_jid = DirectJID
    /\ reply.res.msg.ChatJID = GroupJID

\* C21: SearchContacts(query) returns at most 50 contacts, none with a jid
\* ending in "@g.us", each a chat whose name or jid contains the query without
\* regard to case, ordered by name then jid, each with the part of its jid
\* before the first "@" as phone number.
C21_AsStated ==
    Succeeded("SearchContacts") =>
        LET res == reply.res.contacts
            q == Chars(reply.args.query)
        IN  /\ Len(res) <= 50
            /\ \A i \in 1..Len(res) :
                   /\ ~Like(Chars(res[i].JID), <<"%", "@", "g", ".", "u", "s">>)
                   /\ \E c \in chats : c.jid = res[i].JID /\ c.name = res[i].Name
                   /\ Contains(Chars(res[i].Name), q) \/ Contains(Chars(res[i].JID), q)
                   /\ res[i].PhoneNumber = UpToAt(Chars(res[i].JID))
            /\ \A i, j \in 1..Len(res) :
                   i < j => \/ StrLess(res[i].Name, res[j].Name)
                            \/ res[i].Name = res[j].Name /\ StrLess(res[i].JID, res[j].JID)

(***************************************************************************)
(* The event handler given one history-sync payload: what it was given is  *)
(* kept next to what it sent on ChatChan.                                  *)
(***************************************************************************)
\* The text entries of a list of entries.
TextsOf(entries) == SelectSeq(entries, LAMBDA e : e.hasMessage /\ e.text # "")

\* The entry lists given to the handler: up to MaxHistMsgs + 1 entries, with
\* or without text, in any order, the texts under distinct key ids.
HandlerEntryLists ==
    {s \in SeqsUpTo(TextEntries \cup SkippedEntries, MaxHistMsgs + 1) : DistinctKeys(TextsOf(s))}

HandlerPayloads ==
    LET convs == {Conversation(id, name, msgs) :
                     id \in HistJIDs, name \in HistNames, msgs \in HandlerEntryLists}
    IN  {<<>>, <<NoIdConversation>>}
        \cup {<<c>> : c \in convs}
        \cup {<<NoIdConversation, c>> : c \in convs}
        \cup {<<c, SecondConversation>> : c \in convs}

\* case *events.HistorySync of the event handler, on a payload that is kept.
HistorySyncCall ==
    /\ reply = NoReply
    /\ qrCall = NoQR
    /\ nHandled' = nHandled + 1
    /\ \E payload \in HandlerPayloads :
          /\ Send("history", handleHistorySync(payload))
          /\ reply' = [op |-> "HistorySync", args |-> payload]
    /\ UNCHANGED <<chats, messages, pc, cur, idx, lastErr, received, log, finished, since, qrCall>>

HandlerNext == HistorySyncCall

HandlerSpec == Init /\ [][HandlerNext]_vars

\* The conversations of a payload that have an id.
WithId(payload) == SelectSeq(payload, LAMBDA c : c.id # "")
\* The chats sent on ChatChan so far.
Sent == [i \in 1..Len(sendq) |-> sendq[i].chat]

\* C22: for a history-sync payload with k >= 1 conversations of non-empty id
\* the handler sends k events on ChatChan, the i-th being the event of the
\* i-th of these conversations.
C22_AsStated ==
    (reply.op = "HistorySync" /\ WithId(reply.args) # <<>>) =>
        /\ nSent = Len(WithId(reply.args))
        /\ Len(Sent) = Len(WithId(reply.args))
        /\ \A i \in 1..Len(Sent) : Sent[i].JID = WithId(reply.args)[i].id

\* C23: the event built for a conversation carries exactly the entries that
\* have a message body and a non-empty extended text, in payload order, as
\* messages of the conversation's chat; every carried message has a timestamp
\* at most the event's last_message_time, and one attains it when there is
\* a carried message.
C23_HistoryEventShape ==
    (reply.op = "HistorySync" /\ WithId(reply.args) # <<>>) =>
        LET conv == WithId(reply.args)[1]
            texts == TextsOf(conv.msgs)
            event == Sent[1]
        IN  /\ event.JID = conv.id /\ event.Name = conv.name
            /\ event.Messages =
                   [i \in 1..Len(texts) |->
                       Message(texts[i].id, conv.id, texts[i].participant, texts[i].text,
                               texts[i].ts, texts[i].fromMe)]
            /\ \A i \in 1..Len(event.Messages) :
                   event.Messages[i].Timestamp <= event.LastMessageTime
            /\ event.Messages # <<>> =>
                   \E i \in 1..Len(event.Messages) :
                       event.Messages[i].Timestamp = event.LastMessageTime

\* C23 witness: a conversation of a text, an entry without text and an older
\* text gives an event of the two texts whose last_message_time is the
\* timestamp of the first.
C23_Witness ==
    /\ reply.op = "HistorySync" /\ Len(reply.args) = 1
    /\ Len(reply.args[1].msgs) = 3
    /\ reply.args[1].msgs[2].text = ""
    /\ Len(Sent[1].Messages) = 2
    /\ Sent[1].Messages[1].Timestamp > Sent[1].Messages[2].Timestamp
    /\ Sent[1].LastMessageTime = Sent[1].Messages[1].Timestamp

(***************************************************************************)
(* The consumer given one event on a store that already holds rows: the    *)
(* store the event met is kept next to the steps of its application.       *)
(***************************************************************************)
\* The loop of storeChatAndMessage from message i on: the first error ends
\* it. failAt is the store call that fails on I/O (call 1 is the chat
\* upsert, call i + 1 the upsert of message i), 0 for none.
RECURSIVE StoreMessages(_, _, _, _, _)
StoreMessages(chatRows, messageRows, msgs, i, failAt) ==
    IF i > Len(msgs)
    THEN [chats |-> chatRows, messages |-> messageRows, err |-> "none"]
    ELSE LET r == StoreMessage(chatRows, messageRows, msgs[i], failAt = i + 1)
         IN  IF r.err
             THEN [chats |-> chatRows, messages |-> r.messages, err |-> "message"]
             ELSE StoreMessages(chatRows, r.messages, msgs, i + 1, failAt)

\* storeChatAndMessage(ctx, chat) as one call.
storeChatAndMessage(chatRows, messageRows, chat, failAt) ==
    LET r == StoreChat(chatRows, chat, failAt = 1)
    IN  IF r.err
        THEN [chats |-> r.chats, messages |-> messageRows, err |-> "chat"]
        ELSE StoreMessages(r.chats, messageRows, chat.Messages, 1, failAt)

\* The events the handler can send: one per live message with a content,
\* and the events of the history payloads.
Events ==
    {[n |-> 1, kind |-> "live", chat |-> LiveChat(Message(id, jid, sender, content, ts, FALSE))] :
        id \in MsgIDs, jid \in JIDs, sender \in Senders,
        content \in LiveContents \ {NilContent}, ts \in Times}
    \cup {[n |-> 1, kind |-> "history", chat |-> handleHistorySync(p)] : p \in HistoryPayloads}

\* The stores an event can meet: up to MaxHistMsgs stored messages.
ApplyMessageTables == {T \in QMessageTables : Cardinality(T) <= MaxHistMsgs}

\* The consumer has received an event.
ApplyInit ==
    /\ messages \in ApplyMessageTables
    /\ chats \in QChatTables(messages)
    /\ cur \in Events
    /\ sendq = <<>>
    /\ pc = "chat"
    /\ idx = 0
    /\ lastErr = "none"
    /\ nHandled = 1
    /\ nSent = 1
    /\ received = <<1>>
    /\ log = <<>>
    /\ finished = <<>>
    /\ since = [c \in ChatKeys |-> NoSince]
    /\ reply = [op |-> "received", chats |-> chats, messages |-> messages]
    /\ qrCall = NoQR

ApplyNext == StoreChatStep \/ StoreMessageStep

ApplySpec == ApplyInit /\ [][ApplyNext]_vars

\* C24: wherever the application of an event stands (before or after the chat
\* upsert, after any prefix of its message upserts, returned with or without
\* error), applying the same event completely from there gives, without
\* error, the store that one uninterrupted application to the store the
\* event met gives; and that is the store a completed application leaves.
C24_RedeliveryConverges ==
    LET once == storeChatAndMessage(reply.chats, reply.messages, cur.chat, 0)
    IN  /\ once.err = "none"
        /\ storeChatAndMessage(chats, messages, cur.chat, 0) = once
        /\ (pc = "recv" /\ lastErr = "none") =>
               chats = once.chats /\ messages = once.messages

\* C24 witness: an event of two messages stands after its first message
\* upsert, which replaced a stored row; the second message is not stored yet.
C24_Witness ==
    /\ pc = "msgs" /\ idx = 2
    /\ \E r \in reply.messages :
           /\ SameKey(r, MessageRow(cur.chat.Messages[1]))
           /\ r # MessageRow(cur.chat.Messages[1])
    /\ MessageRow(cur.chat.Messages[1]) \in messages
    /\ MessageRow(cur.chat.Messages[2]) \notin messages

\* C25: on an available store, ListChats with includeLastMessage = FALSE
\* returns without error the stored chats the query keeps, each once, with
\* absent last-message fields.
C25_AsStated ==
    (Called("ListChats") /\ ~reply.args.includeLastMessage /\ reply.args.fail = "none") =>
        /\ reply.res.err = ""
        /\ {x.JID : x \in Elems(reply.res.chats)} = {c.jid : c \in chats}
        /\ \A x \in Elems(reply.res.chats) :
               x.LastMessage = "" /\ x.LastSender = "" /\ ~x.LastIsFromMe

\* C26: in every reachable store state, one where several messages of a chat
\* bear the chat's last_message_time included, ListChats with
\* includeLastMessage returns no two entries of the same jid.
C26_AsStated ==
    \A r \in ListChats(chats, messages, "", 0, 0, TRUE, "last_active", "none") :
        \A i, j \in 1..Len(r.chats) : r.chats[i].JID = r.chats[j].JID => i = j

\* C27: whatever protocol events arrive, a history-sync payload without
\* conversation or with none that has an id included, table chats never
\* holds a row whose jid is the empty string.
C27_AsStated == \A c \in chats : c.jid # ""

\* C28: once every received event has been applied completely and without
\* store failure, in whatever order live messages and history syncs came,
\* each chat's last_message_time is at least the timestamp of every stored
\* message of the chat.
C28_AsStated ==
    (pc = "recv" /\ \A i \in 1..Len(finished) : finished[i].ret = "none") =>
        \A c \in chats : \A m \in messages :
            m.chat_jid = c.jid => m.timestamp <= c.last_message_time

\* C29: a failed chat upsert leaves both tables as they were before the
\* event, ends the event with the chat error, with none of its message
\* upserts ever attempted, and puts the consumer back at the receive with the
\* pending sends untouched; the next event is then received and applied.
C29_ChatFailureIsolatesEvent ==
    /\ [][(pc = "chat" /\ StoreCallStep /\ ~LastLog'.ok)
             => /\ chats' = chats /\ messages' = messages
                /\ ConsumerReady(pc') /\ lastErr' = "chat"
                /\ sendq' = sendq
                /\ finished' = Append(finished, [n |-> cur.n,
                                                 nMsgs |-> Len(cur.chat.Messages),
                                                 ret |-> "chat"])]_vars
    /\ [](\A i \in 1..Len(finished) :
            finished[i].ret = "chat" =>
                /\ Attempted(finished[i].n) = {}
                /\ \A j \in 1..Len(log) : log[j].ev = finished[i].n => ~log[j].ok)
    /\ [][(Recv /\ lastErr = "chat") => cur'.n = cur.n + 1]_vars

\* C29 witness: the chat upsert of an event with a message failed, and the
\* next event has been applied, its message stored.
C29_Witness ==
    /\ Len(finished) = 2
    /\ finished[1].ret = "chat" /\ finished[1].nMsgs >= 1 /\ Attempted(1) = {}
    /\ finished[2].ret = "none" /\ Attempted(2) # {}
    /\ messages = CarriedRows(cur.chat.Messages) /\ messages # {}

(***************************************************************************)
(* whatsapp.GetQR, one call, step by step.                                 *)
(***************************************************************************)
\* Number of events the QR channel delivers before it is closed.
MaxQREvents == 3

\* The items of the channel of client.GetQRChannel: a code, the pairing's
\* success, or another event (the pairing timed out).
QRItem(event, code) == [Event |-> event, Code |-> code]
QRItems ==
    {QRItem("code", "qr1"), QRItem("code", "qr2"), QRItem("success", ""),
     QRItem("timeout", "")}

\* What the channel delivers until it is closed.
QRChannels == SeqsUpTo(QRItems, MaxQREvents)

\* return value, error of GetQR
QRReturn(call, val, err) == [call EXCEPT !.pc = "done", !.val = val, !.err = err]

\* GetQR up to the loop: a paired device connects and returns; otherwise the
\* QR channel is got, the client connects, and the channel is checked.
GetQRStart ==
    /\ qrCall.pc = "idle"
    /\ \E paired \in BOOLEAN, fail \in {"none", "channel", "connect", "nil"}, ch \in QRChannels :
          /\ (paired \/ fail # "none") => ch = <<>>
          /\ paired => fail \in {"none", "connect"}
          /\ qrCall' =
                 IF paired
                 THEN IF fail = "connect"
                      THEN QRReturn(qrCall, "", "failed to connect: %v")
                      ELSE QRReturn(qrCall, "", "")
                 ELSE IF fail = "channel"
                 THEN QRReturn(qrCall, "", "failed to get QR channel: %v")
                 ELSE IF fail = "connect"
                 THEN QRReturn(qrCall, "", "failed to connect to WhatsApp: %w")
                 ELSE IF fail = "nil"
                 THEN QRReturn(qrCall, "", "QR channel not available")
                 ELSE [qrCall EXCEPT !.pc = "loop", !.qrChan = ch]
    /\ UNCHANGED <<chats, messages, sendq, pc, cur, idx, lastErr, nHandled, nSent,
                   received, log, finished, since, reply>>

\* for evt := range qrChan: one iteration, or the end of the loop when the
\* channel is closed.
GetQRLoop ==
    /\ qrCall.pc = "loop"
    /\ qrCall' =
           IF qrCall.qrChan = <<>>
           THEN [qrCall EXCEPT !.pc = "select"]
           ELSE LET evt == Head(qrCall.qrChan)
                    read == [qrCall EXCEPT !.qrChan = Tail(@), !.seen = Append(@, evt)]
                IN  IF evt.Event = "code"
                    THEN [read EXCEPT !.qr = evt.Code]
                    ELSE IF evt.Event = "success"
                    THEN QRReturn([read EXCEPT !.connected = 1], "", "")
                    ELSE QRReturn(read, "", "unexpected QR event: %v")
    /\ UNCHANGED <<chats, messages, sendq, pc, cur, idx, lastErr, nHandled, nSent,
                   received, log, finished, since, reply>>

\* The select after the loop: a value of connected, or the three minutes.
GetQRSelect ==
    /\ qrCall.pc = "select"
    /\ qrCall' =
           IF qrCall.connected > 0
           THEN QRReturn([qrCall EXCEPT !.connected = @ - 1], qrCall.qr, "")
           ELSE QRReturn(qrCall, "", "Timeout waiting for QR code scan")
    /\ UNCHANGED <<chats, messages, sendq, pc, cur, idx, lastErr, nHandled, nSent,
                   received, log, finished, since, reply>>

QRNext == GetQRStart \/ GetQRLoop \/ GetQRSelect

QRSpec == Init /\ [][QRNext]_vars

\* The events GetQR read were all codes, and the last of them.
OnlyCodes(seen) == seen # <<>> /\ \A i \in 1..Len(seen) : seen[i].Event = "code"
LastSeen == qrCall.seen[Len(qrCall.seen)]

\* C30: a call of GetQR on an unpaired device that was delivered codes and
\* nothing else returns the last code, not empty, without error; one that met
\* a "success" event returns the empty string without error; one that met
\* another event returns an error.
C30_AsStated ==
    (qrCall.pc = "done" /\ qrCall.seen # <<>>) =>
        /\ OnlyCodes(qrCall.seen) => qrCall.val = LastSeen.Code /\ qrCall.err = ""
        /\ LastSeen.Event = "success" => qrCall.val = "" /\ qrCall.err = ""
        /\ LastSeen.Event \notin {"code", "success"} => qrCall.err # ""

====
